---- MODULE Spec2Model ----
(***************************************************************************)
(* DDP receiver (ddp_receiver.py): the header codec, the per-destination   *)
(* buffer registry, the query responder and the poll loop of DDPReceiver.  *)
(*                                                                         *)
(* Bytes are integers 0..255 and byte strings are sequences of bytes.      *)
(* A Python value that may be None is a sequence of length 0 (None) or 1.  *)
(* The dict _buffers is a sequence of entries in insertion order, as a     *)
(* Python dict is; the dict _callbacks is a function whose domain is the    *)
(* set of its keys. A callback is known by its name; "None" is no callback.*)
(***************************************************************************)
EXTENDS Integers, Sequences, FiniteSets, TLC

(* ------------------------------------------------------------------ *)
(* Bounds of the model                                                 *)
(* ------------------------------------------------------------------ *)

\* max_buffer_size at construction is MaxCap - 1 or MaxCap, and the sizes
\* given to configure_output are drawn from 0..MaxCap
MaxCap == 2
\* datagrams queued in the socket
MaxPending == 1
\* datagrams one call of poll() receives while more keep arriving
MaxProcessed == 2

(* ------------------------------------------------------------------ *)
(* Protocol constants                                                  *)
(* ------------------------------------------------------------------ *)

DDP_HEADER_LEN == 10
DDP_HEADER_LEN_TIME == 14

DDP_FLAGS1_VER == 192
DDP_FLAGS1_VER1 == 64
DDP_FLAGS1_PUSH == 1
DDP_FLAGS1_QUERY == 2
DDP_FLAGS1_REPLY == 4
DDP_FLAGS1_STORAGE == 8
DDP_FLAGS1_TIME == 16

DDP_ID_DISPLAY == 1
DDP_ID_STATUS == 251
DDP_ID_CONFIG == 250
DDP_ID_ALL == 255

\* errno.EAGAIN
EAGAIN == 11

(* ------------------------------------------------------------------ *)
(* Python primitives                                                   *)
(* ------------------------------------------------------------------ *)

None == <<>>
Some(x) == <<x>>

\* a & b on non-negative integers
RECURSIVE BitAnd(_, _)
BitAnd(a, b) ==
    IF a = 0 \/ b = 0 THEN 0
    ELSE (a % 2) * (b % 2) + 2 * BitAnd(a \div 2, b \div 2)

\* a | b on non-negative integers
RECURSIVE BitOr(_, _)
BitOr(a, b) ==
    IF a = 0 THEN b
    ELSE IF b = 0 THEN a
    ELSE (IF a % 2 = 1 \/ b % 2 = 1 THEN 1 ELSE 0) + 2 * BitOr(a \div 2, b \div 2)

\* a << n and a >> n on non-negative integers
Shl(a, n) == a * 2^n
Shr(a, n) == a \div 2^n

\* s[a:b] for 0 <= a, 0 <= b: the slice is clamped to the sequence
Slice(s, a, b) ==
    LET hi == IF b < Len(s) THEN b ELSE Len(s)
    IN  IF a >= hi THEN <<>> ELSE [i \in 1..(hi - a) |-> s[a + i]]

\* bytearray(n), b"\x00" * n
Zeros(n) == [i \in 1..n |-> 0]

\* int.from_bytes(b, "big")
RECURSIVE FromBytesBig(_)
FromBytesBig(b) ==
    IF Len(b) = 0 THEN 0
    ELSE 256 * FromBytesBig(SubSeq(b, 1, Len(b) - 1)) + b[Len(b)]

(* ------------------------------------------------------------------ *)
(* Header codec                                                        *)
(* ------------------------------------------------------------------ *)

\* build_header shifting the length by 16 for its high byte
build_header_len16(flags1, device_id, offset, length) ==
    << BitAnd(flags1, 255),
       0,
       0,
       BitAnd(device_id, 255),
       BitAnd(Shr(offset, 24), 255),
       BitAnd(Shr(offset, 16), 255),
       BitAnd(Shr(offset, 8), 255),
       BitAnd(offset, 255),
       BitAnd(Shr(length, 16), 255),
       BitAnd(length, 255) >>

\* build_header shifting the offset by 16 for its first byte
build_header_off16(flags1, device_id, offset, length) ==
    << BitAnd(flags1, 255),
       0,
       0,
       BitAnd(device_id, 255),
       BitAnd(Shr(offset, 16), 255),
       BitAnd(Shr(offset, 16), 255),
       BitAnd(Shr(offset, 8), 255),
       BitAnd(offset, 255),
       BitAnd(Shr(length, 8), 255),
       BitAnd(length, 255) >>

build_header(flags1, device_id, offset, length) ==
    << BitAnd(flags1, 255),
       0,
       0,
       BitAnd(device_id, 255),
       BitAnd(Shr(offset, 24), 255),
       BitAnd(Shr(offset, 16), 255),
       BitAnd(Shr(offset, 8), 255),
       BitAnd(offset, 255),
       BitAnd(Shr(length, 8), 255),
       BitAnd(length, 255) >>

\* n as width bytes, the most significant first
RECURSIVE ToBytesBig(_, _)
ToBytesBig(n, width) ==
    IF width = 0 THEN <<>>
    ELSE Append(ToBytesBig(n \div 256, width - 1), n % 256)

\* build_header_2 of tests.py, the reference encoder: the wire layout of a
\* header, field after field
build_header_2(flags1, device_id, offset, length) ==
    ToBytesBig(flags1, 1) \o ToBytesBig(0, 1) \o ToBytesBig(0, 1)
      \o ToBytesBig(device_id, 1) \o ToBytesBig(offset, 4) \o ToBytesBig(length, 2)

\* packet[i] with Python's 0-based index
At(packet, i) == packet[i + 1]

\* _parse_header without the length check of a TIME header
_parse_header_anylen(packet) ==
    IF Len(packet) < DDP_HEADER_LEN THEN None
    ELSE
      LET flags1 == At(packet, 0)
          version == Shr(BitAnd(flags1, DDP_FLAGS1_VER), 6)
      IN  IF version # 1 THEN None
          ELSE
            LET time == BitAnd(flags1, DDP_FLAGS1_TIME) # 0
            IN  Some([flags1 |-> flags1,
                      device_id |-> At(packet, 3),
                      offset |-> BitOr(BitOr(Shl(At(packet, 4), 24),
                                             Shl(At(packet, 5), 16)),
                                       BitOr(Shl(At(packet, 6), 8), At(packet, 7))),
                      length |-> BitOr(Shl(At(packet, 8), 8), At(packet, 9)),
                      header_len |-> IF time THEN DDP_HEADER_LEN_TIME
                                     ELSE DDP_HEADER_LEN,
                      timecode |-> IF time
                                   THEN Some(FromBytesBig(Slice(packet, 10, 14)))
                                   ELSE None])

_parse_header(packet) ==
    IF Len(packet) < DDP_HEADER_LEN THEN None
    ELSE
      LET flags1 == At(packet, 0)
          version == Shr(BitAnd(flags1, DDP_FLAGS1_VER), 6)
      IN  IF version # 1 THEN None
          ELSE
            LET device_id == At(packet, 3)
                offset == BitOr(BitOr(Shl(At(packet, 4), 24), Shl(At(packet, 5), 16)),
                                BitOr(Shl(At(packet, 6), 8), At(packet, 7)))
                length == BitOr(Shl(At(packet, 8), 8), At(packet, 9))
                time == BitAnd(flags1, DDP_FLAGS1_TIME) # 0
            IN  IF time /\ Len(packet) < DDP_HEADER_LEN_TIME THEN None
                ELSE Some([flags1 |-> flags1,
                           device_id |-> device_id,
                           offset |-> offset,
                           length |-> length,
                           header_len |-> IF time THEN DDP_HEADER_LEN_TIME
                                          ELSE DDP_HEADER_LEN,
                           timecode |-> IF time
                                        THEN Some(FromBytesBig(Slice(packet, 10, 14)))
                                        ELSE None])

(* ------------------------------------------------------------------ *)
(* State of one DDPReceiver and of the socket it was constructed with  *)
(* ------------------------------------------------------------------ *)

VARIABLES
    max_buffer_size,  \* self._max_buffer_size
    _buffers,         \* self._buffers: entries [id, buf] in insertion order
    _callbacks,       \* self._callbacks: device id -> callback name
    _status_json,     \* self._status_json: None or Some(bytes)
    pending,          \* datagrams queued in the socket, not yet received
    pc,               \* where the receiver is:
                      \*   "idle"      no call of poll() is running, the host runs
                      \*   "loop"      poll() is about to call recvfrom_into
                      \*   "bcast"     _process_packet is in its loop over the targets
                      \*   "cb"        a callback is running
                      \*   "after"     _process_packet has returned to poll()
                      \*   "returned"  poll() has returned processed
                      \*   "raised"    poll() has raised
    processed,        \* poll()'s local counter, its return value once returned
    received,         \* datagrams recvfrom_into took from the socket in this call
    rx,               \* the datagram in hand: None or Some([data, addr])
    cur,              \* the broadcast being dispatched: None or Some(record) of
                      \* _process_packet's offset, data, PUSH flag, timecode and
                      \* its list(self._buffers.keys()), and of which of these
                      \* keys had a callback when the dispatch began
    targets,          \* the keys of that list the for loop has not yet reached
    outcome,          \* the branch _process_packet took for the datagram in hand
    calls,            \* the callback invocations made for the datagram in hand
    sent,             \* the datagrams given to sendto for the datagram in hand
    exc,              \* the args of the OSError recvfrom_into raised last in
                      \* this call of poll(): None or Some(args)
    codec             \* a run of the header codec on its own

vars == << max_buffer_size, _buffers, _callbacks, _status_json, pending, pc,
           processed, received, rx, cur, targets, outcome, calls, sent, exc,
           codec >>

registry == << _buffers, _callbacks >>
logs == << rx, outcome, calls, sent, exc >>

(* ------------------------------------------------------------------ *)
(* Buffer registry                                                     *)
(* ------------------------------------------------------------------ *)

\* device_id in d
Has(d, device_id) == \E i \in 1..Len(d) : d[i].id = device_id

\* d[device_id]
Get(d, device_id) == d[CHOOSE i \in 1..Len(d) : d[i].id = device_id].buf

\* d[device_id] = buf: an existing key keeps its place, a new key goes last
Put(d, device_id, buf) ==
    IF Has(d, device_id)
    THEN [i \in 1..Len(d) |-> IF d[i].id = device_id
                              THEN [id |-> device_id, buf |-> buf] ELSE d[i]]
    ELSE Append(d, [id |-> device_id, buf |-> buf])

\* list(d.keys())
Keys(d) == [i \in 1..Len(d) |-> d[i].id]

\* the keys of d as a set
KeySet(d) == { d[i].id : i \in 1..Len(d) }

\* len(d[device_id]), 0 when the key is absent
LenOf(d, device_id) == IF Has(d, device_id) THEN Len(Get(d, device_id)) ELSE 0

\* buf[offset:end] = data, for len(buf) >= end = offset + len(data)
SetSlice(buf, offset, end, data) ==
    [i \in 1..Len(buf) |-> IF i > offset /\ i <= end THEN data[i - offset] ELSE buf[i]]

\* _write_to_buffer allocating bytearray(end) anew on every call
_write_to_buffer_realloc(buffers, max, device_id, offset, data) ==
    LET end == offset + Len(data)
    IN  IF end > max
        THEN [buffers |-> buffers, wrote |-> FALSE]
        ELSE [buffers |-> Put(buffers, device_id,
                              SetSlice(Zeros(end), offset, end, data)),
              wrote |-> TRUE]

\* _write_to_buffer returning once it has created the buffer, before the copy
_write_to_buffer_nocopy(buffers, max, device_id, offset, data) ==
    LET end == offset + Len(data)
    IN  IF ~Has(buffers, device_id)
        THEN IF end > max THEN [buffers |-> buffers, wrote |-> FALSE]
             ELSE [buffers |-> Put(buffers, device_id, Zeros(end)), wrote |-> TRUE]
        ELSE
          LET buf == Get(buffers, device_id)
          IN  IF end > Len(buf) /\ end > max
              THEN [buffers |-> buffers, wrote |-> FALSE]
              ELSE
                LET grown == IF end > Len(buf)
                             THEN buf \o Zeros(end - Len(buf)) ELSE buf
                IN  [buffers |-> Put(buffers, device_id,
                                     SetSlice(grown, offset, end, data)),
                     wrote |-> TRUE]

\* The dict after the call, and whether the call reached its last line
\* (wrote) or returned early.
_write_to_buffer(buffers, max, device_id, offset, data) ==
    LET end == offset + Len(data)
    IN  IF ~Has(buffers, device_id) /\ end > max
        THEN [buffers |-> buffers, wrote |-> FALSE]
        ELSE
          LET created == IF Has(buffers, device_id) THEN buffers
                         ELSE Put(buffers, device_id, Zeros(end))
              buf == Get(created, device_id)
          IN  IF end > Len(buf) /\ end > max
              THEN [buffers |-> created, wrote |-> FALSE]
              ELSE
                LET grown == IF end > Len(buf)
                             THEN buf \o Zeros(end - Len(buf)) ELSE buf
                IN  [buffers |-> Put(created, device_id,
                                     SetSlice(grown, offset, end, data)),
                     wrote |-> TRUE]

(* ------------------------------------------------------------------ *)
(* Query responder                                                     *)
(* ------------------------------------------------------------------ *)

ReplyFlags == BitOr(BitOr(DDP_FLAGS1_VER1, DDP_FLAGS1_REPLY), DDP_FLAGS1_PUSH)

\* _send_empty_reply answering for the status id whatever id was asked
_send_empty_reply_status(device_id, addr) ==
    << [data |-> build_header(ReplyFlags, DDP_ID_STATUS, 0, 0), addr |-> addr] >>

\* the datagrams _send_empty_reply gives to sendto
_send_empty_reply(device_id, addr) ==
    << [data |-> build_header(ReplyFlags, device_id, 0, 0), addr |-> addr] >>

\* _handle_query announcing the payload's length but leaving the payload out
_handle_query_header_only(status_json, device_id, addr) ==
    IF device_id # DDP_ID_STATUS THEN _send_empty_reply(device_id, addr)
    ELSE IF status_json = None THEN _send_empty_reply(device_id, addr)
    ELSE << [data |-> build_header(ReplyFlags, device_id, 0, Len(status_json[1])),
             addr |-> addr] >>

\* the datagrams _handle_query gives to sendto
_handle_query(status_json, device_id, addr) ==
    IF device_id # DDP_ID_STATUS THEN _send_empty_reply(device_id, addr)
    ELSE IF status_json = None THEN _send_empty_reply(device_id, addr)
    ELSE << [data |-> build_header(ReplyFlags, device_id, 0, Len(status_json[1]))
                      \o status_json[1],
             addr |-> addr] >>

(* ------------------------------------------------------------------ *)
(* Inputs                                                              *)
(* ------------------------------------------------------------------ *)

\* the device ids the host configures and the callbacks it may register for
\* each, the payloads it sets, the addresses datagrams come from
ConfigIds == {DDP_ID_DISPLAY, 2}
Callbacks(device_id) == IF device_id = DDP_ID_DISPLAY THEN {"f", "g"} ELSE {"f"}
StatusPayloads == { <<123, 125>> }
Addrs == {"a1", "a2"}

\* what a callback may do before it returns: calls of configure_output
\* (device_id, size, callback)
InCallback == { <<2, 1, "f">> }

\* an offset with four different non-zero bytes, 0x01020304
BigOffset == 2^24 + 2 * 2^16 + 3 * 2^8 + 4
TimecodeBytes == << 0, 0, 1, 2 >>

\* a well-formed datagram: header, then the payload the header announces
Pkt(flags1, device_id, offset, payload) ==
    build_header(flags1, device_id, offset, Len(payload)) \o payload

\* the same with the four timecode bytes of a TIME header
PktT(flags1, device_id, offset, payload) ==
    build_header(flags1, device_id, offset, Len(payload)) \o TimecodeBytes \o payload

DataPackets ==
    { Pkt(65, d, w[1], w[2]) :
        d \in {1, 2},
        w \in { <<0, <<1>> >>, <<1, <<1>> >>, <<0, <<0, 1>> >>, <<MaxCap, <<1>> >> } }
    \cup { Pkt(64, 1, 0, <<1>>), Pkt(64, 2, 1, <<1>>),
           Pkt(64, 2, BigOffset, <<1>>), Pkt(65, 2, MaxCap, <<>>),
           PktT(81, 1, 0, <<1>>),
           \* the length field and the bytes carried disagree
           build_header(65, 1, 0, 2) \o <<1>>, build_header(65, 1, 0, 1) \o <<1, 1>> }

BroadcastPackets ==
    { Pkt(65, DDP_ID_ALL, 0, <<1>>), Pkt(64, DDP_ID_ALL, 1, <<1>>),
      PktT(81, DDP_ID_ALL, 0, <<0, 1>>) }

QueryPackets ==
    { Pkt(66, d, 0, <<>>) : d \in {1, DDP_ID_CONFIG, DDP_ID_STATUS, DDP_ID_ALL} }
    \cup { Pkt(67, DDP_ID_STATUS, 0, <<1>>), Pkt(75, 2, 1, <<1>>),
           PktT(82, DDP_ID_STATUS, 0, <<>>) }

DroppedPackets ==
    { Pkt(68, 1, 0, <<1>>), Pkt(69, DDP_ID_STATUS, 0, <<123, 125>>),
      Pkt(70, DDP_ID_STATUS, 0, <<>>),
      Pkt(72, 1, 0, <<1>>), Pkt(73, DDP_ID_ALL, 0, <<1>>) }

InvalidPackets ==
    { <<65>>, SubSeq(Pkt(65, 1, 0, <<>>), 1, 9),
      Pkt(1, 1, 0, <<1>>), Pkt(129, 1, 0, <<1>>), Pkt(193, 1, 0, <<1>>),
      Pkt(81, 1, 0, <<1>>), Pkt(80, 1, 0, <<1, 0, 1>>) }

Packets == DataPackets \cup BroadcastPackets \cup QueryPackets \cup DroppedPackets
           \cup InvalidPackets \cup { <<>> }

\* what recvfrom_into can return: a datagram and the address it came from
Inbound ==
    { [data |-> p, addr |-> "a1"] : p \in Packets }
    \cup { [data |-> Pkt(66, d, 0, <<>>), addr |-> "a2"] : d \in {1, DDP_ID_STATUS} }

(* ------------------------------------------------------------------ *)
(* DDPReceiver                                                         *)
(* ------------------------------------------------------------------ *)

CodecOff == [pc |-> "off", args |-> None, bytes |-> <<>>, parsed |-> None]

\* __init__
Init ==
    /\ max_buffer_size \in {MaxCap - 1, MaxCap}
    /\ _buffers = <<>>
    /\ _callbacks = <<>>
    /\ _status_json \in {None} \cup { Some(s) : s \in StatusPayloads }
    /\ pending = 0
    /\ pc = "idle"
    /\ processed = 0
    /\ received = 0
    /\ rx = None
    /\ cur = None
    /\ targets = <<>>
    /\ outcome = "none"
    /\ calls = <<>>
    /\ sent = <<>>
    /\ exc = None
    /\ codec = CodecOff

\* self._callbacks[device_id] = callback
SetCallback(callbacks, device_id, callback) ==
    [k \in DOMAIN callbacks \cup {device_id} |->
        IF k = device_id THEN callback ELSE callbacks[k]]

\* self._callbacks.get(device_id)
GetCallback(callbacks, device_id) ==
    IF device_id \in DOMAIN callbacks THEN callbacks[device_id] ELSE "None"

\* configure_output making no buffer when size is 0 (if size: ...)
configure_output_skipempty(device_id, size, callback) ==
    /\ \/ pc = "idle"
       \/ pc = "cb" /\ << device_id, size, callback >> \in InCallback
    /\ _buffers' = IF size = 0 THEN _buffers
                   ELSE Put(_buffers, device_id, Zeros(size))
    /\ _callbacks' = IF callback # "None"
                     THEN SetCallback(_callbacks, device_id, callback)
                     ELSE _callbacks
    /\ UNCHANGED << max_buffer_size, _status_json, pending, pc, processed,
                    received, cur, targets, logs, codec >>

\* configure_output leaving a buffer that device_id already has as it is
configure_output_setdefault(device_id, size, callback) ==
    /\ \/ pc = "idle"
       \/ pc = "cb" /\ << device_id, size, callback >> \in InCallback
    /\ _buffers' = IF Has(_buffers, device_id) THEN _buffers
                   ELSE Put(_buffers, device_id, Zeros(size))
    /\ _callbacks' = IF callback # "None"
                     THEN SetCallback(_callbacks, device_id, callback)
                     ELSE _callbacks
    /\ UNCHANGED << max_buffer_size, _status_json, pending, pc, processed,
                    received, cur, targets, logs, codec >>

\* The host calls configure_output between two calls of poll(), or a callback
\* calls it.
configure_output(device_id, size, callback) ==
    /\ \/ pc = "idle"
       \/ pc = "cb" /\ << device_id, size, callback >> \in InCallback
    /\ _buffers' = Put(_buffers, device_id, Zeros(size))
    /\ _callbacks' = IF callback # "None"
                     THEN SetCallback(_callbacks, device_id, callback)
                     ELSE _callbacks
    /\ UNCHANGED << max_buffer_size, _status_json, pending, pc, processed,
                    received, cur, targets, logs, codec >>

set_status(status_json) ==
    /\ pc = "idle"
    /\ _status_json' = Some(status_json)
    /\ UNCHANGED << max_buffer_size, registry, pending, pc, processed,
                    received, cur, targets, logs, codec >>

\* A datagram reaches the socket. Only recvfrom_into reads the socket, so an
\* arrival at any moment is one before the next call of recvfrom_into.
Arrive ==
    /\ pc \in {"idle", "loop"}
    /\ pending < MaxPending
    /\ pc = "idle" \/ processed + pending < MaxProcessed
    /\ pending' = pending + 1
    /\ UNCHANGED << max_buffer_size, registry, _status_json, pc, processed,
                    received, cur, targets, logs, codec >>

\* poll(), up to the while loop
PollStart ==
    /\ pc = "idle"
    /\ pc' = "loop"
    /\ processed' = 0
    /\ received' = 0
    /\ UNCHANGED << max_buffer_size, registry, _status_json, pending, cur,
                    targets, logs, codec >>

\* _handle_push passing the first buffer of the dict, whichever target it is
_handle_push_first(buffers, callbacks, device_id, timecode) ==
    LET callback == GetCallback(callbacks, device_id)
    IN  IF callback = "None" THEN [kind |-> "skip", call |-> None]
        ELSE IF ~Has(buffers, device_id) THEN [kind |-> "raise", call |-> None]
        ELSE [kind |-> "call",
              call |-> Some([callback |-> callback,
                             device_id |-> device_id,
                             buffer |-> buffers[1].buf,
                             timecode |-> timecode])]

\* _handle_push after a write left the dict as buffers: "skip" without a
\* callback, "raise" when self._buffers[device_id] has no such key, else
\* "call" with the arguments passed.
_handle_push(buffers, callbacks, device_id, timecode) ==
    LET callback == GetCallback(callbacks, device_id)
    IN  IF callback = "None" THEN [kind |-> "skip", call |-> None]
        ELSE IF ~Has(buffers, device_id) THEN [kind |-> "raise", call |-> None]
        ELSE [kind |-> "call",
              call |-> Some([callback |-> callback,
                             device_id |-> device_id,
                             buffer |-> Get(buffers, device_id),
                             timecode |-> timecode])]

\* WriteAndPush looking up the buffer to pass before the write is made
WriteAndPush_before(target_id, offset, data, push, timecode, next) ==
    LET w == _write_to_buffer(_buffers, max_buffer_size, target_id, offset, data)
        h == IF push THEN _handle_push(_buffers, _callbacks, target_id, timecode)
             ELSE [kind |-> "skip", call |-> None]
    IN  /\ _buffers' = w.buffers
        /\ outcome' = IF w.wrote THEN "written" ELSE "dropped"
        /\ calls' = calls \o h.call
        /\ pc' = CASE h.kind = "skip" -> next
                   [] h.kind = "call" -> "cb"
                   [] h.kind = "raise" -> "raised"

\* One target of a data packet: the write and, with PUSH, the callback.
\* next is where _process_packet goes on when no callback runs.
WriteAndPush(target_id, offset, data, push, timecode, next) ==
    LET w == _write_to_buffer(_buffers, max_buffer_size, target_id, offset, data)
        h == IF push THEN _handle_push(w.buffers, _callbacks, target_id, timecode)
             ELSE [kind |-> "skip", call |-> None]
    IN  /\ _buffers' = w.buffers
        /\ outcome' = IF w.wrote THEN "written" ELSE "dropped"
        /\ calls' = calls \o h.call
        /\ pc' = CASE h.kind = "skip" -> next
                   [] h.kind = "call" -> "cb"
                   [] h.kind = "raise" -> "raised"

\* _process_packet taking all that follows the header for the payload
\* (packet[header_len:])
_process_packet_to_end(packet, addr) ==
    LET parsed == _parse_header(packet)
        h == parsed[1]
        flag(m) == BitAnd(h.flags1, m) # 0
        data == Slice(packet, h.header_len, Len(packet))
        return(why) == /\ outcome' = why
                       /\ pc' = "after"
                       /\ UNCHANGED << _buffers, cur, targets, calls, sent >>
    IN  IF parsed = None THEN return("invalid")
        ELSE IF flag(DDP_FLAGS1_REPLY) THEN return("reply")
        ELSE IF flag(DDP_FLAGS1_QUERY) THEN
            /\ outcome' = "query"
            /\ sent' = sent \o _handle_query(_status_json, h.device_id, addr)
            /\ pc' = "after"
            /\ UNCHANGED << _buffers, cur, targets, calls >>
        ELSE IF flag(DDP_FLAGS1_STORAGE) THEN return("storage")
        ELSE IF h.device_id = DDP_ID_ALL THEN
            /\ outcome' = "broadcast"
            /\ cur' = Some([offset |-> h.offset, data |-> data,
                            push |-> flag(DDP_FLAGS1_PUSH), timecode |-> h.timecode,
                            keys |-> Keys(_buffers),
                            had |-> KeySet(_buffers) \cap DOMAIN _callbacks])
            /\ targets' = Keys(_buffers)
            /\ pc' = "bcast"
            /\ UNCHANGED << _buffers, calls, sent >>
        ELSE
            /\ WriteAndPush(h.device_id, h.offset, data, flag(DDP_FLAGS1_PUSH),
                            h.timecode, "after")
            /\ UNCHANGED << cur, targets, sent >>

\* _process_packet testing the QUERY flag before the REPLY flag
_process_packet_query_first(packet, addr) ==
    LET parsed == _parse_header(packet)
        h == parsed[1]
        flag(m) == BitAnd(h.flags1, m) # 0
        data == Slice(packet, h.header_len, h.header_len + h.length)
        return(why) == /\ outcome' = why
                       /\ pc' = "after"
                       /\ UNCHANGED << _buffers, cur, targets, calls, sent >>
    IN  IF parsed = None THEN return("invalid")
        ELSE IF flag(DDP_FLAGS1_QUERY) THEN
            /\ outcome' = "query"
            /\ sent' = sent \o _handle_query(_status_json, h.device_id, addr)
            /\ pc' = "after"
            /\ UNCHANGED << _buffers, cur, targets, calls >>
        ELSE IF flag(DDP_FLAGS1_REPLY) THEN return("reply")
        ELSE IF flag(DDP_FLAGS1_STORAGE) THEN return("storage")
        ELSE IF h.device_id = DDP_ID_ALL THEN
            /\ outcome' = "broadcast"
            /\ cur' = Some([offset |-> h.offset, data |-> data,
                            push |-> flag(DDP_FLAGS1_PUSH), timecode |-> h.timecode,
                            keys |-> Keys(_buffers),
                            had |-> KeySet(_buffers) \cap DOMAIN _callbacks])
            /\ targets' = Keys(_buffers)
            /\ pc' = "bcast"
            /\ UNCHANGED << _buffers, calls, sent >>
        ELSE
            /\ WriteAndPush(h.device_id, h.offset, data, flag(DDP_FLAGS1_PUSH),
                            h.timecode, "after")
            /\ UNCHANGED << cur, targets, sent >>

\* _process_packet without the return after _handle_query: a query is
\* answered and then handled as the packet it would be without its QUERY flag
_process_packet_fallthrough(packet, addr) ==
    LET parsed == _parse_header(packet)
        h == parsed[1]
        flag(m) == BitAnd(h.flags1, m) # 0
        data == Slice(packet, h.header_len, h.header_len + h.length)
        replies == IF flag(DDP_FLAGS1_QUERY)
                   THEN _handle_query(_status_json, h.device_id, addr) ELSE <<>>
        return(why) == /\ outcome' = why
                       /\ pc' = "after"
                       /\ UNCHANGED << _buffers, cur, targets, calls >>
    IN  IF parsed = None THEN return("invalid") /\ UNCHANGED sent
        ELSE IF flag(DDP_FLAGS1_REPLY) THEN return("reply") /\ UNCHANGED sent
        ELSE IF flag(DDP_FLAGS1_STORAGE)
        THEN return("storage") /\ sent' = sent \o replies
        ELSE IF h.device_id = DDP_ID_ALL THEN
            /\ outcome' = "broadcast"
            /\ cur' = Some([offset |-> h.offset, data |-> data,
                            push |-> flag(DDP_FLAGS1_PUSH), timecode |-> h.timecode,
                            keys |-> Keys(_buffers),
                            had |-> KeySet(_buffers) \cap DOMAIN _callbacks])
            /\ targets' = Keys(_buffers)
            /\ pc' = "bcast"
            /\ sent' = sent \o replies
            /\ UNCHANGED << _buffers, calls >>
        ELSE
            /\ WriteAndPush(h.device_id, h.offset, data, flag(DDP_FLAGS1_PUSH),
                            h.timecode, "after")
            /\ sent' = sent \o replies
            /\ UNCHANGED << cur, targets >>

_process_packet(packet, addr) ==
    LET parsed == _parse_header(packet)
        h == parsed[1]
        flag(m) == BitAnd(h.flags1, m) # 0
        data == Slice(packet, h.header_len, h.header_len + h.length)
        return(why) == /\ outcome' = why
                       /\ pc' = "after"
                       /\ UNCHANGED << _buffers, cur, targets, calls, sent >>
    IN  IF parsed = None THEN return("invalid")
        ELSE IF flag(DDP_FLAGS1_REPLY) THEN return("reply")
        ELSE IF flag(DDP_FLAGS1_QUERY) THEN
            /\ outcome' = "query"
            /\ sent' = sent \o _handle_query(_status_json, h.device_id, addr)
            /\ pc' = "after"
            /\ UNCHANGED << _buffers, cur, targets, calls >>
        ELSE IF flag(DDP_FLAGS1_STORAGE) THEN return("storage")
        ELSE IF h.device_id = DDP_ID_ALL THEN
            /\ outcome' = "broadcast"
            /\ cur' = Some([offset |-> h.offset, data |-> data,
                            push |-> flag(DDP_FLAGS1_PUSH), timecode |-> h.timecode,
                            keys |-> Keys(_buffers),
                            had |-> KeySet(_buffers) \cap DOMAIN _callbacks])
            /\ targets' = Keys(_buffers)
            /\ pc' = "bcast"
            /\ UNCHANGED << _buffers, calls, sent >>
        ELSE
            /\ WriteAndPush(h.device_id, h.offset, data, flag(DDP_FLAGS1_PUSH),
                            h.timecode, "after")
            /\ UNCHANGED << cur, targets, sent >>

\* poll(): recvfrom_into returns the datagram dg, the count-th of this call
RecvCounted(dg, count) ==
    /\ pc = "loop"
    /\ pending > 0
    /\ pending' = pending - 1
    /\ received' = count
    /\ rx' = Some(dg)
    /\ IF Len(dg.data) = 0
       THEN \* if not nbytes: break
            /\ pc' = "returned"
            /\ UNCHANGED << _buffers, cur, targets, outcome, calls, sent >>
       ELSE _process_packet(dg.data, dg.addr)
    /\ UNCHANGED << max_buffer_size, _callbacks, _status_json, processed, exc,
                    codec >>

Recv(dg) == RecvCounted(dg, received + 1)

\* the OSErrors recvfrom_into raises other than OSError(EAGAIN), by their
\* args: one without args, one with another errno
Faults == { <<>>, << EAGAIN + 1 >> }

\* poll()'s test on the OSError caught, taking every OSError for "no data"
NoData_any(args) == TRUE

\* poll()'s test on the OSError caught:
\* exc.args and exc.args[0] in (errno.EAGAIN,)
NoData(args) == args # <<>> /\ args[1] \in {EAGAIN}

\* RecvRaises going round the loop again on "no data" (continue for break)
RecvRaises_retry(args) ==
    /\ pc = "loop"
    /\ exc' = Some(args)
    /\ pc' = IF NoData(args) THEN "loop" ELSE "raised"
    /\ UNCHANGED << max_buffer_size, registry, _status_json, pending, processed,
                    received, cur, targets, rx, outcome, calls, sent, codec >>

\* poll(): recvfrom_into raises OSError(*args); break or raise
RecvRaises(args) ==
    /\ pc = "loop"
    /\ exc' = Some(args)
    /\ pc' = IF NoData(args) THEN "returned" ELSE "raised"
    /\ UNCHANGED << max_buffer_size, registry, _status_json, pending, processed,
                    received, cur, targets, rx, outcome, calls, sent, codec >>

\* poll(): nothing is pending and recvfrom_into raises OSError(EAGAIN)
RecvNone ==
    /\ pending = 0
    /\ RecvRaises(<< EAGAIN >>)

\* poll(): recvfrom_into raises any other OSError
RecvFault == \E args \in Faults : RecvRaises(args)

\* BroadcastStep looping over self._buffers itself, not over a list made of
\* its keys beforehand: the keys added meanwhile are reached as well
BroadcastStep_live ==
    LET Added(k) == /\ \A i \in 1..Len(cur[1].keys) : cur[1].keys[i] # k
                    /\ Get(_buffers, k) = Zeros(Len(Get(_buffers, k)))
        rest == targets \o SelectSeq(Keys(_buffers), Added)
    IN  /\ pc = "bcast"
        /\ rest # <<>>
        /\ targets' = Tail(rest)
        /\ WriteAndPush(Head(rest), cur[1].offset, cur[1].data, cur[1].push,
                        cur[1].timecode, "bcast")
        /\ UNCHANGED << max_buffer_size, _callbacks, _status_json, pending,
                        processed, received, rx, cur, sent, exc, codec >>

\* _process_packet: one turn of the loop over list(self._buffers.keys())
BroadcastStep ==
    /\ pc = "bcast"
    /\ targets # <<>>
    /\ targets' = Tail(targets)
    /\ WriteAndPush(Head(targets), cur[1].offset, cur[1].data, cur[1].push,
                    cur[1].timecode, "bcast")
    /\ UNCHANGED << max_buffer_size, _callbacks, _status_json, pending, processed,
                    received, rx, cur, sent, exc, codec >>

\* _process_packet: the loop over the targets is exhausted
BroadcastDone ==
    /\ pc = "bcast"
    /\ targets = <<>>
    /\ cur' = None
    /\ pc' = "after"
    /\ UNCHANGED << max_buffer_size, registry, _status_json, pending, processed,
                    received, targets, logs, codec >>

\* a callback returns to _handle_push, which returns to _process_packet
CallbackReturn ==
    /\ pc = "cb"
    /\ pc' = IF cur # None THEN "bcast" ELSE "after"
    /\ UNCHANGED << max_buffer_size, registry, _status_json, pending, processed,
                    received, cur, targets, logs, codec >>

\* poll(): processed += 1, which makes it count, and back to the top of the
\* loop. The datagram in hand is done with.
PacketDoneCounted(count) ==
    /\ pc = "after"
    /\ processed' = count
    /\ pc' = "loop"
    /\ rx' = None
    /\ outcome' = "none"
    /\ calls' = <<>>
    /\ sent' = <<>>
    /\ UNCHANGED << max_buffer_size, registry, _status_json, pending, received,
                    cur, targets, exc, codec >>

PacketDone == PacketDoneCounted(processed + 1)

\* poll() has returned or raised and its caller goes on.
Resume ==
    /\ pc \in {"returned", "raised"}
    /\ pc' = "idle"
    /\ processed' = 0
    /\ received' = 0
    /\ rx' = None
    /\ cur' = None
    /\ targets' = <<>>
    /\ outcome' = "none"
    /\ calls' = <<>>
    /\ sent' = <<>>
    /\ exc' = None
    /\ UNCHANGED << max_buffer_size, registry, _status_json, pending, codec >>

Next ==
    \/ \E d \in ConfigIds, n \in 0..MaxCap :
          \E c \in Callbacks(d) \cup {"None"} : configure_output(d, n, c)
    \/ \E s \in StatusPayloads : set_status(s)
    \/ Arrive
    \/ PollStart
    \/ \E dg \in Inbound : Recv(dg)
    \/ RecvNone
    \/ RecvFault
    \/ BroadcastStep
    \/ BroadcastDone
    \/ CallbackReturn
    \/ PacketDone
    \/ Resume

Spec == Init /\ [][Next]_vars

(* ------------------------------------------------------------------ *)
(* The receiver while datagrams keep arriving                          *)
(* ------------------------------------------------------------------ *)

\* Datagrams reach the socket during a call of poll() however many the call
\* has received. The two counts then stop at MaxProcessed, which stands for
\* every count from MaxProcessed on.
Counted(n) == IF n < MaxProcessed THEN n + 1 ELSE MaxProcessed

ArriveFlood ==
    /\ pc \in {"idle", "loop"}
    /\ pending < MaxPending
    /\ pending' = pending + 1
    /\ UNCHANGED << max_buffer_size, registry, _status_json, pc, processed,
                    received, cur, targets, logs, codec >>

RecvFlood(dg) == RecvCounted(dg, Counted(received))

PacketDoneFlood == PacketDoneCounted(Counted(processed))

NextFlood ==
    \/ \E d \in ConfigIds, n \in 0..MaxCap :
          \E c \in Callbacks(d) \cup {"None"} : configure_output(d, n, c)
    \/ \E s \in StatusPayloads : set_status(s)
    \/ ArriveFlood
    \/ PollStart
    \/ \E dg \in Inbound : RecvFlood(dg)
    \/ RecvNone
    \/ RecvFault
    \/ BroadcastStep
    \/ BroadcastDone
    \/ CallbackReturn
    \/ PacketDoneFlood
    \/ Resume

\* the steps poll() takes by itself once called, the return of a callback
\* among them. recvfrom_into does not wait on a socket with timeout 0: it
\* returns a datagram or raises at once.
PollSteps ==
    \/ \E dg \in Inbound : RecvFlood(dg)
    \/ RecvNone
    \/ BroadcastStep
    \/ BroadcastDone
    \/ CallbackReturn
    \/ PacketDoneFlood

\* poll(), once called, goes on; the host and the network need not
SpecFlood == Init /\ [][NextFlood]_vars /\ WF_vars(PollSteps)

(* ------------------------------------------------------------------ *)
(* The header codec on its own                                         *)
(* ------------------------------------------------------------------ *)

\* arguments of build_header: every flags1 byte, device ids, offsets and
\* lengths at the ends and in the middle of their ranges. (Offsets stop at
\* 2^31 - 1, the largest integer of the model checker.)
HeaderArgs ==
    [ flags1 : 0..255,
      device_id : {0, DDP_ID_DISPLAY, DDP_ID_STATUS, DDP_ID_ALL},
      offset : {0, 255, 256, 65536, BigOffset, 2^30 + (2^30 - 1)},
      length : {0, 1, 256, 65535} ]

CodecInit ==
    /\ max_buffer_size = MaxCap
    /\ _buffers = <<>>
    /\ _callbacks = <<>>
    /\ _status_json = None
    /\ pending = 0
    /\ pc = "idle"
    /\ processed = 0
    /\ received = 0
    /\ rx = None
    /\ cur = None
    /\ targets = <<>>
    /\ outcome = "none"
    /\ calls = <<>>
    /\ sent = <<>>
    /\ exc = None
    /\ codec \in { [pc |-> "args", args |-> Some(a), bytes |-> <<>>, parsed |-> None] :
                     a \in HeaderArgs }
                 \cup { [pc |-> "bytes", args |-> None, bytes |-> p, parsed |-> None] :
                        p \in Packets }

receiver == << max_buffer_size, registry, _status_json, pending, pc, processed,
               received, cur, targets, logs >>

\* build_header is applied to the arguments
Encode ==
    /\ codec.pc = "args"
    /\ codec' = [codec EXCEPT
                   !.pc = "bytes",
                   !.bytes = build_header(codec.args[1].flags1, codec.args[1].device_id,
                                          codec.args[1].offset, codec.args[1].length)]
    /\ UNCHANGED receiver

\* _parse_header is applied to the bytes
Decode ==
    /\ codec.pc = "bytes"
    /\ codec' = [codec EXCEPT !.pc = "parsed", !.parsed = _parse_header(codec.bytes)]
    /\ UNCHANGED receiver

CodecNext == Encode \/ Decode

SpecCodec == CodecInit /\ [][CodecNext]_vars

(* ------------------------------------------------------------------ *)
(* Properties                                                          *)
(* ------------------------------------------------------------------ *)

\* The step is poll() receiving a datagram, which is rx' from then on.
RecvStep == pc = "loop" /\ rx' # None

\* The step is one turn of the broadcast loop.
BcastStep == pc = "bcast" /\ targets # <<>> /\ targets' = Tail(targets)

\* A datagram that _process_packet takes as data: its header is valid and
\* its REPLY, QUERY and STORAGE flags are clear.
IsData(packet) ==
    /\ _parse_header(packet) # None
    /\ BitAnd(packet[1], DDP_FLAGS1_REPLY + DDP_FLAGS1_QUERY + DDP_FLAGS1_STORAGE) = 0

\* The write(device_id, offset, data) the step makes, None if it makes none:
\* that of a data packet for one destination, or that of one turn of the
\* broadcast loop.
WriteOfStep ==
    IF RecvStep /\ IsData(rx'[1].data) /\ rx'[1].data[4] # DDP_ID_ALL
    THEN LET packet == rx'[1].data
             h == _parse_header(packet)[1]
         IN  Some([device_id |-> h.device_id, offset |-> h.offset,
                   data |-> Slice(packet, h.header_len, h.header_len + h.length)])
    ELSE IF BcastStep
    THEN Some([device_id |-> Head(targets), offset |-> cur[1].offset,
               data |-> cur[1].data])
    ELSE None

\* C1: in every reachable state every destination buffer is at most
\* max_buffer_size bytes long.
CapacityInvariant ==
    \A i \in 1..Len(_buffers) : Len(_buffers[i].buf) <= max_buffer_size

\* C2 as claimed: no step makes an existing buffer shorter or removes it.
MonotonicLength ==
    [][\A d \in KeySet(_buffers) :
          /\ Has(_buffers', d)
          /\ LenOf(_buffers', d) >= LenOf(_buffers, d)]_vars

\* C2 as amended: no step removes a buffer, and a step that makes the buffer
\* of device_id shorter is a call configure_output(device_id, size, ...),
\* which leaves it size bytes long; no step of packet processing (a write, a
\* broadcast write, a query, a dropped packet) makes any buffer shorter.
MonotonicLengthButConfigure ==
    [][\A d \in KeySet(_buffers) :
          /\ Has(_buffers', d)
          /\ \/ LenOf(_buffers', d) >= LenOf(_buffers, d)
             \/ /\ pc \in {"idle", "cb"}
                /\ pc' = pc
                /\ \E n \in 0..MaxCap : Get(_buffers', d) = Zeros(n)]_vars

\* C2 witness: a buffer that configure_output made, with a callback, has been
\* written to at offset 1 and is two bytes long.
GrownByWrite ==
    /\ pc = "after"
    /\ outcome = "written"
    /\ rx = Some([data |-> Pkt(65, 1, 1, <<1>>), addr |-> "a1"])
    /\ 1 \in DOMAIN _callbacks
    /\ Get(_buffers, 1) = <<0, 1>>

\* C3: a write with offset + len(data) > max_buffer_size leaves the registry
\* as it was and raises nothing.
OverCapacityDropped ==
    [][\A w \in {WriteOfStep} :
         (w # None /\ w[1].offset + Len(w[1].data) > max_buffer_size)
         => (_buffers' = _buffers /\ pc' # "raised")]_vars

\* C4: a write with offset + len(data) <= max_buffer_size leaves the buffer
\* of device_id max(previous length or 0, offset + len(data)) bytes long,
\* with data at [offset, offset + len(data)), the previous bytes elsewhere,
\* zeros in what was added, and every other buffer as it was.
AcceptedWrite ==
    [][\A w \in {WriteOfStep} :
         (w # None /\ w[1].offset + Len(w[1].data) <= max_buffer_size) =>
         LET d == w[1].device_id
             o == w[1].offset
             end == o + Len(w[1].data)
             old == IF Has(_buffers, d) THEN Get(_buffers, d) ELSE <<>>
             new == Get(_buffers', d)
         IN  /\ Has(_buffers', d)
             /\ Len(new) = IF Len(old) > end THEN Len(old) ELSE end
             /\ \A i \in 1..Len(new) :
                   new[i] = IF i > o /\ i <= end THEN w[1].data[i - o]
                            ELSE IF i <= Len(old) THEN old[i]
                            ELSE 0
             /\ KeySet(_buffers') = KeySet(_buffers) \cup {d}
             /\ \A e \in KeySet(_buffers) \ {d} :
                   Get(_buffers', e) = Get(_buffers, e)
             /\ pc' # "raised"]_vars

\* C4 witness: two writes at adjacent offsets have assembled <<1, 1>> in a
\* buffer that configure_output created empty.
AdjacentWritesAssembled ==
    /\ pc = "after"
    /\ outcome = "written"
    /\ rx = Some([data |-> Pkt(64, 2, 1, <<1>>), addr |-> "a1"])
    /\ max_buffer_size = 2
    /\ Get(_buffers, 2) = <<1, 1>>

\* flags1 carries version 1 (bits 7-6 are 01); its TIME bit (bit 4) is set
Version1(flags1) == (flags1 \div 64) % 4 = 1
TimeSet(flags1) == (flags1 \div 16) % 2 = 1

\* what _parse_header gave for the header that build_header made of a
RecoveredFrom(a) ==
    /\ codec.parsed # None
    /\ codec.parsed[1].flags1 = a.flags1
    /\ codec.parsed[1].device_id = a.device_id
    /\ codec.parsed[1].offset = a.offset
    /\ codec.parsed[1].length = a.length

\* C5 as claimed: for every flags1 of version 1, decoding the 10 bytes of
\* encode(flags1, device_id, offset, length) succeeds and recovers the four
\* fields.
HeaderRoundTrip ==
    (codec.pc = "parsed" /\ codec.args # None /\ Version1(codec.args[1].flags1))
    => RecoveredFrom(codec.args[1])

\* C5 as amended: the same for every flags1 of version 1 whose TIME flag is
\* clear (with TIME set the 10 bytes are four short of a header and decode
\* reports invalid).
HeaderRoundTripNoTime ==
    /\ (codec.pc = "parsed" /\ codec.args # None /\ Version1(codec.args[1].flags1)
          /\ ~TimeSet(codec.args[1].flags1))
       => RecoveredFrom(codec.args[1])
    /\ (codec.pc = "parsed" /\ codec.args # None /\ Version1(codec.args[1].flags1)
          /\ TimeSet(codec.args[1].flags1))
       => codec.parsed = None

\* C5 witness: a header with every field non-zero has gone round.
RoundTripDone ==
    /\ codec.pc = "parsed"
    /\ codec.args = Some([flags1 |-> 65, device_id |-> DDP_ID_STATUS,
                          offset |-> BigOffset, length |-> 65535])
    /\ codec.bytes = << 65, 0, 0, 251, 1, 2, 3, 4, 255, 255 >>
    /\ codec.parsed # None

\* C6: decode reports invalid exactly for an input shorter than 10 bytes, or
\* whose version bits are not 01, or whose TIME flag is set while it is
\* shorter than 14 bytes; a datagram with an invalid header changes no
\* buffer, fires no callback, sends nothing and raises nothing.
DecodeValidity ==
    [][RecvStep =>
         LET p == rx'[1].data
             invalid == _parse_header(p) = None
         IN  /\ invalid <=> \/ Len(p) < 10
                            \/ ~Version1(p[1])
                            \/ TimeSet(p[1]) /\ Len(p) < 14
             /\ invalid => /\ UNCHANGED << _buffers, _callbacks, _status_json >>
                           /\ calls' = <<>>
                           /\ sent' = <<>>
                           /\ pc' \in {"after", "returned"}]_vars

\* C6 witness: a datagram with the TIME flag and 11 bytes has been dropped
\* as invalid by a receiver that has a buffer and a callback for its id.
TruncatedTimeDropped ==
    /\ pc = "after"
    /\ outcome = "invalid"
    /\ rx = Some([data |-> Pkt(81, 1, 0, <<1>>), addr |-> "a1"])
    /\ Has(_buffers, 1)
    /\ 1 \in DOMAIN _callbacks

\* a datagram that _process_packet takes as a query: its header is valid, its
\* REPLY flag (bit 2) is clear and its QUERY flag (bit 1) is set
IsQuery(packet) ==
    /\ _parse_header(packet) # None
    /\ (packet[1] \div 4) % 2 = 0
    /\ (packet[1] \div 2) % 2 = 1

\* _process_packet has returned from the query rx
QueryAnswered == pc = "after" /\ rx # None /\ IsQuery(rx[1].data)

\* C7: a query for id 251 while a status payload is set causes exactly one
\* datagram, to the query's source address: the header 0x45, 0, 0, 251,
\* offset 0, length of the payload, and then the payload, which is the one
\* given at construction or by the latest set_status.
StatusReply ==
    /\ [](QueryAnswered /\ rx[1].data[4] = DDP_ID_STATUS /\ _status_json # None
          => sent = << [data |-> << 69, 0, 0, 251, 0, 0, 0, 0,
                                    Len(_status_json[1]) \div 256,
                                    Len(_status_json[1]) % 256 >>
                                 \o _status_json[1],
                        addr |-> rx[1].addr] >>)
    /\ [][_status_json' # _status_json
          => \E s \in StatusPayloads : set_status(s)]_vars

\* C7 witness: the payload of a set_status has been sent to the second address.
StatusSent ==
    /\ QueryAnswered
    /\ rx[1].addr = "a2"
    /\ _status_json = Some(<<123, 125>>)
    /\ sent = << [data |-> <<69, 0, 0, 251, 0, 0, 0, 0, 0, 2, 123, 125>>,
                  addr |-> "a2"] >>

\* C8: a query for any other id, or for 251 while no status payload is set,
\* causes exactly one datagram, to the sender: the 10 bytes 0x45, 0, 0, the
\* id asked, offset 0, length 0.
EmptyAcknowledgment ==
    (QueryAnswered /\ (rx[1].data[4] # DDP_ID_STATUS \/ _status_json = None))
    => sent = << [data |-> << 69, 0, 0, rx[1].data[4], 0, 0, 0, 0, 0, 0 >>,
                  addr |-> rx[1].addr] >>

\* C8 witness: a query for the config id has been acknowledged by a receiver
\* that has a status payload.
ConfigQueryAcknowledged ==
    /\ QueryAnswered
    /\ rx[1].data[4] = DDP_ID_CONFIG
    /\ _status_json # None
    /\ Len(sent) = 1
    /\ Len(sent[1].data) = 10

\* the broadcast in hand has PUSH set and every destination configured when
\* its dispatch began had a callback
PushToAll ==
    /\ cur # None
    /\ cur[1].push
    /\ \A i \in 1..Len(cur[1].keys) : cur[1].keys[i] \in cur[1].had

\* C9: in the dispatch of a PUSH data packet for id 255 to destinations that
\* each have a callback, the callbacks invoked are those of the destinations
\* reached so far, one each and in their order, so one for each destination
\* at the end; each turn writes to its destination only and passes the
\* callback the destination's id and the destination's buffer as written.
BroadcastDispatch ==
    /\ [](PushToAll =>
            [i \in 1..Len(calls) |-> calls[i].device_id]
              = SubSeq(cur[1].keys, 1, Len(cur[1].keys) - Len(targets)))
    /\ [][(BcastStep /\ PushToAll) =>
            LET t == Head(targets)
                o == cur[1].offset
                end == o + Len(cur[1].data)
            IN  /\ calls' = Append(calls, [callback |-> _callbacks[t],
                                           device_id |-> t,
                                           buffer |-> Get(_buffers', t),
                                           timecode |-> cur[1].timecode])
                /\ end <= max_buffer_size
                     => Slice(Get(_buffers', t), o, end) = cur[1].data
                /\ \A e \in KeySet(_buffers) \ {t} :
                     Get(_buffers', e) = Get(_buffers, e)
                /\ pc' = "cb"]_vars

\* C9 witness: a broadcast to two destinations has ended with two callbacks
\* invoked, each on a buffer of its own.
BothCallbacksFired ==
    /\ pc = "bcast"
    /\ targets = <<>>
    /\ PushToAll
    /\ Len(cur[1].keys) = 2
    /\ Len(calls) = 2
    /\ calls[1].device_id # calls[2].device_id
    /\ calls[1].buffer # calls[2].buffer

\* C10: when poll() returns, no datagram is pending and the count returned
\* is the number of datagrams received in the call.
FullDrain == pc = "returned" => (pending = 0 /\ processed = received)

\* C11: when recvfrom_into raises an OSError in poll(), poll() returns its
\* count if the error is OSError(EAGAIN) and raises the error to its caller
\* if it is any other; either way the buffers, the callbacks and the status
\* payload stay as the datagrams processed before left them, and the count
\* is the number of those datagrams.
FaultPropagation ==
    [][(pc = "loop" /\ exc' # None) =>
         /\ pc' = IF exc'[1] = << EAGAIN >> THEN "returned" ELSE "raised"
         /\ UNCHANGED << _buffers, _callbacks, _status_json, processed >>]_vars

\* C11 witness: poll() has raised an OSError that is not EAGAIN after it
\* processed two datagrams, whose writes are in the buffer of destination 2.
FaultAfterWrites ==
    /\ pc = "raised"
    /\ exc = Some(<< EAGAIN + 1 >>)
    /\ processed = 2
    /\ Has(_buffers, 2)
    /\ Get(_buffers, 2) = <<1, 1>>

\* C12: for every flags1 and device_id in 0..255, offset and length in their
\* ranges, build_header returns the 10 bytes of the reference encoder: flags1,
\* 0, 0, device_id, the offset in 4 bytes and the length in 2, big-endian.
EncoderMatchesReference ==
    (codec.pc \in {"bytes", "parsed"} /\ codec.args # None)
    => /\ codec.bytes = build_header_2(codec.args[1].flags1, codec.args[1].device_id,
                                        codec.args[1].offset, codec.args[1].length)
       /\ Len(codec.bytes) = 10

\* C12 witness: the largest offset has been encoded, with every flag set.
LargestOffsetEncoded ==
    /\ codec.pc = "bytes"
    /\ codec.args = Some([flags1 |-> 255, device_id |-> DDP_ID_ALL,
                          offset |-> 2^30 + (2^30 - 1), length |-> 256])
    /\ codec.bytes = << 255, 0, 0, 255, 127, 255, 255, 255, 1, 0 >>

\* the PUSH flag (bit 0) of the datagram in hand after the step, and the
\* timecode of its header: the four bytes after the tenth when the TIME flag
\* is set, absent when it is clear
PushOfStep == rx'[1].data[1] % 2 = 1
TimecodeOfStep ==
    LET p == rx'[1].data
    IN  IF TimeSet(p[1])
        THEN Some(p[11] * 2^24 + p[12] * 2^16 + p[13] * 2^8 + p[14])
        ELSE None

\* The step invokes callbacks as w, a write with PUSH to a destination that
\* has a callback, is to: one invocation, made once the write is over, with
\* the destination's id, its whole buffer as the write left it and the
\* timecode. Without PUSH or without a callback the step invokes nothing
\* and raises nothing. A step that is no write invokes nothing.
InvokesFor(w) ==
    IF w = None THEN Len(calls') <= Len(calls)
    ELSE IF PushOfStep /\ GetCallback(_callbacks, w[1].device_id) # "None"
    THEN /\ Has(_buffers', w[1].device_id)
         /\ calls' = Append(calls,
                            [callback |-> _callbacks[w[1].device_id],
                             device_id |-> w[1].device_id,
                             buffer |-> Get(_buffers', w[1].device_id),
                             timecode |-> TimecodeOfStep])
         /\ pc' = "cb"
    ELSE calls' = calls /\ pc' \notin {"cb", "raised"}

\* the buffer of w's destination holds w's data at w's offset after the step
HoldsPayload(w) ==
    /\ Has(_buffers', w[1].device_id)
    /\ Slice(Get(_buffers', w[1].device_id), w[1].offset,
             w[1].offset + Len(w[1].data)) = w[1].data

\* _write_to_buffer accepts w: it ends within max_buffer_size, or within the
\* buffer the destination has
Accepted(w) ==
    \/ w[1].offset + Len(w[1].data) <= max_buffer_size
    \/ w[1].offset + Len(w[1].data) <= LenOf(_buffers, w[1].device_id)

\* C13 as claimed: a callback is invoked only for a data packet with PUSH,
\* after the write to its destination, with the destination's id, its whole
\* buffer and the header's timecode (absent without TIME), and that buffer
\* contains the packet's payload; PUSH without a callback raises nothing.
CallbackOrdering ==
    [][\A w \in {WriteOfStep} :
         /\ InvokesFor(w)
         /\ (w # None /\ Len(calls') > Len(calls)) => HoldsPayload(w)]_vars

\* C13 as amended: the same, but the buffer passed contains the packet's
\* payload only when the write was accepted; when the write was dropped for
\* capacity the callback is invoked all the same, with the buffer the
\* destination had before the packet.
CallbackAfterWrite ==
    [][\A w \in {WriteOfStep} :
         /\ InvokesFor(w)
         /\ (w # None /\ Len(calls') > Len(calls)) =>
               IF Accepted(w) THEN HoldsPayload(w)
               ELSE Get(_buffers', w[1].device_id) = Get(_buffers, w[1].device_id)]_vars

\* C13 witness: the callback g of destination 1 runs for a PUSH packet that
\* wrote one byte at offset 1, and was passed the two bytes of the buffer.
WholeBufferPassed ==
    /\ pc = "cb"
    /\ rx = Some([data |-> Pkt(65, 1, 1, <<1>>), addr |-> "a1"])
    /\ calls = << [callback |-> "g", device_id |-> 1, buffer |-> <<0, 1>>,
                   timecode |-> None] >>

\* C14: a datagram with a valid header, QUERY set and REPLY clear, whatever
\* its other flags, id, offset, length and payload, leaves the buffers, their
\* keys and order, the callbacks and the status payload as they were, invokes
\* no callback, starts no broadcast, raises nothing and gives sendto exactly
\* one datagram.
QueryNoBufferEffect ==
    [][(RecvStep /\ IsQuery(rx'[1].data)) =>
         /\ UNCHANGED << _buffers, _callbacks, _status_json, cur, targets >>
         /\ calls' = <<>>
         /\ Len(sent') = 1
         /\ pc' = "after"]_vars

\* C14 witness: a query with PUSH and STORAGE set, for destination 2 at
\* offset 1 with a payload byte, has been answered by a receiver whose
\* destination 2 has a callback and a buffer of zeros.
PushQueryAnswered ==
    /\ QueryAnswered
    /\ rx[1].data = Pkt(75, 2, 1, <<1>>)
    /\ 2 \in DOMAIN _callbacks
    /\ Get(_buffers, 2) = <<0, 0>>
    /\ calls = <<>>
    /\ Len(sent) = 1

\* bit n of the flags byte is set
Bit(flags1, n) == (flags1 \div 2^n) % 2 = 1

\* C15: a datagram with the REPLY flag set (bit 2), whatever its QUERY and
\* PUSH flags, and one with STORAGE set (bit 3) and QUERY and REPLY clear,
\* whatever its PUSH flag, change no buffer, callback or status payload,
\* invoke no callback, start no broadcast and send nothing; and every
\* datagram the receiver sends has the REPLY flag set, so is such a datagram.
FlagPrecedence ==
    /\ [][(RecvStep /\ Len(rx'[1].data) > 0
            /\ \/ Bit(rx'[1].data[1], 2)
               \/ Bit(rx'[1].data[1], 3) /\ ~Bit(rx'[1].data[1], 1)) =>
             /\ UNCHANGED << _buffers, _callbacks, _status_json, cur, targets >>
             /\ calls' = <<>>
             /\ sent' = <<>>
             /\ pc' = "after"]_vars
    /\ [](\A i \in 1..Len(sent) :
            Version1(sent[i].data[1]) /\ Bit(sent[i].data[1], 2))

\* C15 witness: the datagram that a receiver with this status payload sends
\* in answer to a status query has come in and has been dropped, nothing
\* sent.
EchoedReplyDropped ==
    /\ pc = "after"
    /\ _status_json = Some(<<123, 125>>)
    /\ rx[1].data = _handle_query(_status_json, DDP_ID_STATUS, "a2")[1].data
    /\ rx[1].data = << 69, 0, 0, 251, 0, 0, 0, 0, 0, 2, 123, 125 >>
    /\ sent = <<>>
    /\ calls = <<>>

\* the destinations registered since the dispatch of the broadcast in hand
\* began: those with a buffer now that are not in the list the loop runs over
RegisteredSince == { d \in KeySet(_buffers) : \A i \in 1..Len(cur[1].keys) : cur[1].keys[i] # d }

\* C16: while a packet for id 255 is dispatched, a destination registered
\* by a callback since the dispatch began is not among the targets left, has
\* its buffer as configure_output made it (zeros: no write of this packet)
\* and has had no callback invoked; every write and every invocation of the
\* dispatch is for a destination that was configured when it began.
BroadcastSnapshot ==
    /\ [](cur # None =>
            /\ \A d \in RegisteredSince :
                  /\ \A i \in 1..Len(targets) : targets[i] # d
                  /\ Get(_buffers, d) = Zeros(Len(Get(_buffers, d)))
                  /\ \A i \in 1..Len(calls) : calls[i].device_id # d
            /\ \A i \in 1..Len(calls) :
                  \E j \in 1..Len(cur[1].keys) : cur[1].keys[j] = calls[i].device_id)
    /\ [][(pc = "bcast" /\ _buffers' # _buffers) =>
            \E j \in 1..Len(cur[1].keys) :
               \A e \in KeySet(_buffers') \ {cur[1].keys[j]} :
                  Has(_buffers, e) /\ Get(_buffers', e) = Get(_buffers, e)]_vars

\* C16 witness: the broadcast of a PUSH packet to destination 1 alone has
\* run the callback of 1, which registered destination 2, and the loop has
\* ended without a write to 2 or an invocation for it.
RegisteredDuringDispatch ==
    /\ pc = "bcast"
    /\ targets = <<>>
    /\ cur[1].keys = << 1 >>
    /\ cur[1].data = << 1 >>
    /\ Keys(_buffers) = << 1, 2 >>
    /\ Get(_buffers, 1) = << 1 >>
    /\ Get(_buffers, 2) = << 0 >>
    /\ 2 \in DOMAIN _callbacks
    /\ Len(calls) = 1

\* the calls of configure_output the host and the callbacks make
ConfigureCalls ==
    { << d, n, c >> : d \in ConfigIds, n \in 0..MaxCap, c \in {"f", "g", "None"} }

\* what configure_output(t[1], t[2], ...) does to the buffers: the buffer of
\* t[1] is t[2] zeros, whatever it was, and every other buffer and every
\* other callback is as it was
ConfiguredBuffer(t) ==
    /\ Has(_buffers', t[1])
    /\ Get(_buffers', t[1]) = [i \in 1..t[2] |-> 0]
    /\ KeySet(_buffers') = KeySet(_buffers) \cup {t[1]}
    /\ \A e \in KeySet(_buffers) \ {t[1]} : Get(_buffers', e) = Get(_buffers, e)
    /\ \A e \in (DOMAIN _callbacks \cup DOMAIN _callbacks') \ {t[1]} :
          GetCallback(_callbacks', e) = GetCallback(_callbacks, e)

\* C17 as claimed: after configure_output(device_id, size, callback) the
\* buffer of device_id is size zeros, the callback registered for device_id
\* is the callback of the call (none when the call gave none), and the
\* buffers and callbacks of the other ids are as before.
ConfigureEffect ==
    [][\A t \in ConfigureCalls :
         configure_output(t[1], t[2], t[3]) =>
           /\ ConfiguredBuffer(t)
           /\ GetCallback(_callbacks', t[1]) = t[3]]_vars

\* C17 as amended: the same, but a call that gives no callback leaves the
\* callback registered for device_id as it was; only a call that gives one
\* replaces it.
ConfigureKeepsCallback ==
    [][\A t \in ConfigureCalls :
         configure_output(t[1], t[2], t[3]) =>
           /\ ConfiguredBuffer(t)
           /\ GetCallback(_callbacks', t[1]) =
                 IF t[3] # "None" THEN t[3] ELSE GetCallback(_callbacks, t[1])]_vars

\* C17 witness: the callback of destination 2, invoked with the two bytes a
\* packet left in the buffer of 2, has called configure_output(2, 1, f): the
\* buffer of 2 is now one zero.
ReconfiguredInCallback ==
    /\ pc = "cb"
    /\ Len(calls) = 1
    /\ calls[1].device_id = 2
    /\ calls[1].buffer = << 0, 1 >>
    /\ Get(_buffers, 2) = << 0 >>

\* the branch _process_packet is to take for a datagram
BranchOf(packet) ==
    IF _parse_header(packet) = None THEN "drop"
    ELSE IF Bit(packet[1], 2) THEN "drop"
    ELSE IF Bit(packet[1], 1) THEN "respond"
    ELSE IF Bit(packet[1], 3) THEN "drop"
    ELSE "write"

\* The datagram in hand has taken its branch and no other: a dropped one
\* has sent nothing and invoked nothing, a query has sent one reply and
\* invoked nothing, a data packet has sent nothing.
OneBranch ==
    (rx # None /\ Len(rx[1].data) > 0) =>
       /\ BranchOf(rx[1].data) = "drop"
            => outcome \in {"invalid", "reply", "storage"} /\ sent = <<>> /\ calls = <<>>
       /\ BranchOf(rx[1].data) = "respond"
            => outcome = "query" /\ Len(sent) = 1 /\ calls = <<>>
       /\ BranchOf(rx[1].data) = "write"
            => outcome \in {"written", "dropped", "broadcast"} /\ sent = <<>>

\* While a datagram is in hand it is not received again nor put back, the
\* targets left of a broadcast only become fewer, and the datagram leaves
\* the hand only when _process_packet has returned.
NoReentry ==
    (rx # None /\ pc \in {"bcast", "cb", "after"}) =>
       /\ pending' = pending
       /\ received' = received
       /\ Len(targets') <= Len(targets)
       /\ rx' = rx \/ (pc = "after" /\ rx' = None /\ pc' = "loop")

\* a call of poll() has ended
PollEnded == pc \in {"returned", "raised"}

\* a datagram reaches the socket during a call of poll()
ArrivesDuringPoll == pc \notin {"idle", "returned", "raised"} /\ pending' = pending + 1

\* C18 as claimed: each datagram takes exactly one of the branches drop,
\* respond, write-then-callback and is not processed again, and every call
\* of poll() ends, callbacks returning.
Termination ==
    /\ []OneBranch
    /\ [][NoReentry]_vars
    /\ (pc = "loop") ~> PollEnded

\* C18 as amended: the same, but a call of poll() ends provided that, from
\* some moment on, no further datagram arrives during the call; while
\* datagrams keep arriving the loop keeps receiving them.
TerminationOnceQuiet ==
    /\ []OneBranch
    /\ [][NoReentry]_vars
    /\ (<>[][~ArrivesDuringPoll]_vars) => ((pc = "loop") ~> PollEnded)

\* C18 witness: poll() has returned on "no data" after it processed two
\* datagrams, the second of which arrived during the call.
ReturnedAfterTwo ==
    /\ pc = "returned"
    /\ exc = Some(<< EAGAIN >>)
    /\ processed = 2
    /\ received = 2
    /\ pending = 0

\* C19: every device id with a registered callback has a buffer, every
\* callback invoked was invoked for a destination that has a buffer, and
\* poll() raises only what recvfrom_into raised: _handle_push never fails to
\* find self._buffers[device_id].
CallbackHasBuffer ==
    /\ \A d \in DOMAIN _callbacks : Has(_buffers, d)
    /\ \A i \in 1..Len(calls) : Has(_buffers, calls[i].device_id)
    /\ pc = "raised" => exc # None

\* C19 witness: a PUSH packet whose write to destination 1 was dropped for
\* capacity has had the callback of 1 invoked, with the buffer 1 has.
PushAfterDroppedWrite ==
    /\ pc = "cb"
    /\ outcome = "dropped"
    /\ rx[1].data = Pkt(65, 1, MaxCap, <<1>>)
    /\ Len(calls) = 1
    /\ calls[1].device_id = 1
    /\ calls[1].buffer = Get(_buffers, 1)

\* The step is a data packet's arrival at poll() and the packet is for one
\* destination, given as device_id.
DataStepFor(device_id) ==
    /\ RecvStep
    /\ IsData(rx'[1].data)
    /\ rx'[1].data[4] = device_id
    /\ device_id # DDP_ID_ALL

\* C20: a data packet for one destination writes at its offset the bytes the
\* datagram carries after its header, up to the number its length field
\* declares: min(declared, carried) bytes, the bytes after them ignored. The
\* write is accepted or dropped, and the buffer grows, by the end of these
\* bytes and not by the declared length.
PayloadBound ==
    [][\A d \in ConfigIds : DataStepFor(d) =>
         LET p == rx'[1].data
             hl == IF TimeSet(p[1]) THEN 14 ELSE 10
             declared == p[9] * 256 + p[10]
             carried == Len(p) - hl
             n == IF declared < carried THEN declared ELSE carried
             o == p[5] * 2^24 + p[6] * 2^16 + p[7] * 2^8 + p[8]
             old == IF Has(_buffers, d) THEN Get(_buffers, d) ELSE <<>>
             new == Get(_buffers', d)
         IN  IF o + n <= max_buffer_size \/ o + n <= Len(old)
             THEN /\ Has(_buffers', d)
                  /\ Len(new) = IF Len(old) > o + n THEN Len(old) ELSE o + n
                  /\ \A i \in 1..Len(new) :
                        new[i] = IF i > o /\ i <= o + n THEN p[hl + i - o]
                                 ELSE IF i <= Len(old) THEN old[i]
                                 ELSE 0
             ELSE _buffers' = _buffers]_vars

\* C20 witness: of a datagram that declares two bytes and carries one, the
\* one byte has been written, within a max_buffer_size of 1 that the
\* declared two would exceed.
ShortDatagramWritten ==
    /\ pc = "after"
    /\ rx[1].data = << 65, 0, 0, 1, 0, 0, 0, 0, 0, 2, 1 >>
    /\ max_buffer_size = 1
    /\ Get(_buffers, 1) = << 1 >>

====
